---- MODULE Spec2Model ----
(***************************************************************************)
(* The Etoile client (client.ts, fetch.ts, errors.ts) as a state machine.  *)
(*                                                                         *)
(* One client object and a fixed number of call slots.  A call is one      *)
(* invocation of a public method: the synchronous part of the method       *)
(* (validation, request shaping, the call of fetch) is one step; the       *)
(* settling of the fetch promise and of response.json() are later steps    *)
(* taken by the event loop.                                                *)
(*                                                                         *)
(* JavaScript values are tagged records:                                   *)
(*   Undef, Null, Bool(b), BigInt                                          *)
(*   Num(h)      the finite number h/2 (so Num(1) is 0.5, Num(2) is 1)     *)
(*   NaN, Infinity, NegInfinity                                            *)
(*   Str(s)      a string given by the caller, s its sequence of           *)
(*               characters                                                *)
(*   Lit(text)   a string constant of the program text (error codes and    *)
(*               messages), kept whole: the client never looks inside it   *)
(*   Arr(a)      an array, a its sequence of elements                      *)
(*   Obj(o)      an object, o a function from property names to values     *)
(***************************************************************************)
EXTENDS Integers, Sequences, FiniteSets, TLC

VARIABLES client, calls

vars == <<client, calls>>

----------------------------------------------------------------------------
(* Bounds *)

MaxStrLen == 2
MaxArrLen == 2
MaxCalls == 2
MaxPerturbed == 2

----------------------------------------------------------------------------
(* JavaScript values *)

Undef == [t |-> "undefined"]
Null == [t |-> "null"]
BigInt == [t |-> "bigint"]
Bool(b) == [t |-> "boolean", b |-> b]
Num(h) == [t |-> "number", halves |-> h]
NaN == [t |-> "number", special |-> "NaN"]
Infinity == [t |-> "number", special |-> "Infinity"]
NegInfinity == [t |-> "number", special |-> "-Infinity"]
Str(s) == [t |-> "string", s |-> s]
Lit(text) == [t |-> "string", lit |-> text]
Arr(a) == [t |-> "array", a |-> a]
Obj(o) == [t |-> "object", o |-> o]

EmptyObj == Obj([k \in {} |-> Undef])

\* typeof value
TypeOf(v) == IF v.t \in {"array", "null"} THEN "object" ELSE v.t

\* Array.isArray(value)
IsArray(v) == v.t = "array"

\* Number.isFinite(value): false for every non-number, NaN and the infinities
IsFinite(v) == v.t = "number" /\ "halves" \in DOMAIN v

\* value.length of a string
StrLength(v) == IF "s" \in DOMAIN v THEN Len(v.s) ELSE Len(v.lit)

\* white space as String.prototype.trim sees it
WhiteSpace == {" ", "\t", "\n"}

RECURSIVE TrimStart(_)
TrimStart(s) ==
    IF s # <<>> /\ Head(s) \in WhiteSpace THEN TrimStart(Tail(s)) ELSE s

RECURSIVE TrimEnd(_)
TrimEnd(s) ==
    IF s # <<>> /\ s[Len(s)] \in WhiteSpace
    THEN TrimEnd(SubSeq(s, 1, Len(s) - 1))
    ELSE s

\* value.trim() of a string given by the caller
Trim(v) == Str(TrimEnd(TrimStart(v.s)))

\* !value : the falsy values of JavaScript
Falsy(v) ==
    \/ v.t \in {"undefined", "null"}
    \/ v = Bool(FALSE)
    \/ v = Num(0)
    \/ v = NaN
    \/ v.t = "string" /\ StrLength(v) = 0

\* obj.key : a property read; a property the object does not have reads as
\* undefined
Get(obj, key) ==
    IF obj.t = "object" /\ key \in DOMAIN obj.o THEN obj.o[key] ELSE Undef

\* a ?? b
Coalesce(a, b) == IF a.t \in {"undefined", "null"} THEN b ELSE a

----------------------------------------------------------------------------
(* errors.ts *)

\* the error built without its code
createEtoileError_NoCode(code, message) ==
    Obj([name |-> Lit("EtoileError"), message |-> Lit(message)])

createEtoileError(code, message) ==
    Obj([name |-> Lit("EtoileError"), code |-> Lit(code), message |-> Lit(message)])

isEtoileError(value) ==
    /\ ~Falsy(value)
    /\ TypeOf(value) = "object"
    /\ Get(value, "name") = Lit("EtoileError")
    /\ TypeOf(Get(value, "code")) = "string"
    /\ TypeOf(Get(value, "message")) = "string"

----------------------------------------------------------------------------
(* Completion of a synchronous piece of code: normal, or a thrown value *)

Normal == [thrown |-> FALSE]
Throw(e) == [thrown |-> TRUE, value |-> e]

RECURSIVE FirstThrow(_)
\* statements run in sequence: the first one that throws ends the sequence
FirstThrow(results) ==
    IF results = <<>> THEN Normal
    ELSE IF Head(results).thrown THEN Head(results)
    ELSE FirstThrow(Tail(results))

----------------------------------------------------------------------------
(* client.ts: validation helpers *)

API_URL ==
    Str(<<"h","t","t","p","s",":","/","/","e","t","o","i","l","e",".","d","e","v",
          "/","a","p","i","/","v","1">>)

\* typeof value !== "string" || value.trim().length === 0
BlankOrNotString(value) ==
    TypeOf(value) # "string" \/ StrLength(Trim(value)) = 0

\* the check without the trim
assertNonEmptyString_NoTrim(value, field) ==
    IF TypeOf(value) # "string" \/ StrLength(value) = 0
    THEN Throw(createEtoileError("INVALID_INPUT", field \o " is required."))
    ELSE Normal

assertNonEmptyString(value, field) ==
    IF BlankOrNotString(value)
    THEN Throw(createEtoileError("INVALID_INPUT", field \o " is required."))
    ELSE Normal

assertContent(value) ==
    IF BlankOrNotString(value)
    THEN Throw(createEtoileError("INVALID_INPUT", "content is required."))
    ELSE Normal

\* collections.every((item) => typeof item === "string" && item.trim().length > 0)
EveryNonBlankString(a) ==
    \A i \in 1..Len(a) : TypeOf(a[i]) = "string" /\ StrLength(Trim(a[i])) > 0

\* the validation without the test of the elements
validateCollections_NoEvery(collections) ==
    IF ~IsArray(collections) \/ Len(collections.a) = 0
    THEN Throw(createEtoileError("INVALID_INPUT",
                   "collections must be a non-empty array of strings."))
    ELSE Normal

validateCollections(collections) ==
    IF ~IsArray(collections) \/ Len(collections.a) = 0
    THEN Throw(createEtoileError("INVALID_INPUT",
                   "collections must be a non-empty array of strings."))
    ELSE IF ~EveryNonBlankString(collections.a)
    THEN Throw(createEtoileError("INVALID_INPUT",
                   "collections must be a non-empty array of strings."))
    ELSE Normal

----------------------------------------------------------------------------
(* fetch.ts *)

isObject(value) == TypeOf(value) = "object" /\ value # Null

RequestFailed == Obj([error |-> Lit("Request failed.")])
NetworkRequestFailed == Obj([error |-> Lit("Network request failed.")])

RECURSIVE StringifyThrows(_)
\* JSON.stringify throws a TypeError on a BigInt anywhere in the value
StringifyThrows(v) ==
    CASE v.t = "bigint" -> TRUE
      [] v.t = "array"  -> \E i \in 1..Len(v.a) : StringifyThrows(v.a[i])
      [] v.t = "object" -> \E k \in DOMAIN v.o : StringifyThrows(v.o[k])
      [] OTHER          -> FALSE

RECURSIVE JsonOf(_)
\* The JSON value that the text JSON.stringify(v) denotes: a property whose
\* value is undefined is left out, an undefined array element and a
\* non-finite number become null.
JsonOf(v) ==
    CASE v.t = "array" ->
           Arr([i \in 1..Len(v.a) |->
                  IF v.a[i].t = "undefined" THEN Null ELSE JsonOf(v.a[i])])
      [] v.t = "object" ->
           Obj([k \in {j \in DOMAIN v.o : v.o[j].t # "undefined"} |-> JsonOf(v.o[k])])
      [] v.t = "number" -> IF IsFinite(v) THEN v ELSE Null
      [] OTHER -> v

\* the text of a request or response body that is the JSON encoding of json
JsonText(json) == [t |-> "text", json |-> json]

\* a body text that is no JSON (an empty body, an HTML error page)
Garbage == [t |-> "text", garbage |-> TRUE]

TypeErrorOf(message) == Obj([name |-> Lit("TypeError"), message |-> Lit(message)])
SyntaxErrorOf(message) == Obj([name |-> Lit("SyntaxError"), message |-> Lit(message)])

\* JSON.stringify(value)
JSONstringify(value) ==
    IF StringifyThrows(value)
    THEN Throw(TypeErrorOf("Do not know how to serialize a BigInt"))
    ELSE [thrown |-> FALSE, value |-> JsonText(JsonOf(value))]

\* the argument of fetch(...) in fetchJson: the URL and the init object
fetchRequest(config, path, options) ==
    [url     |-> Str(config.baseUrl.s \o path),
     method  |-> options.method,
     headers |-> ("Authorization" :>
                     Str(<<"B","e","a","r","e","r"," ">> \o config.apiKey.s))
                 @@ ("Content-Type" :> Lit("application/json")),
     body    |-> IF options.body = Undef THEN Undef
                 ELSE JSONstringify(options.body).value]

\* the catch block of fetchJson: what the call rejects with when error was
\* thrown inside the try block
fetchJsonCatch(error) ==
    IF isObject(error) THEN error ELSE NetworkRequestFailed

\* response.ok
ResponseOk(response) == response.status \in 200..299

\* response.json(): the parsed body, or a rejection
responseJson(response) ==
    IF "json" \in DOMAIN response.body
    THEN [thrown |-> FALSE, value |-> response.body.json]
    ELSE IF "failure" \in DOMAIN response.body
    THEN Throw(response.body.failure)
    ELSE Throw(SyntaxErrorOf("Unexpected end of JSON input"))

\* the payload taken as parsed, without the isObject test
parseErrorPayload_Unchecked(response) ==
    LET data == responseJson(response)
    IN  IF data.thrown THEN RequestFailed ELSE data.value

parseErrorPayload(response) ==
    LET data == responseJson(response)
    IN  IF data.thrown THEN RequestFailed
        ELSE IF isObject(data.value) THEN data.value ELSE RequestFailed

----------------------------------------------------------------------------
(* client.ts: the constructor and the public methods.  Each method is given *)
(* as its synchronous part: it throws, or it reaches fetchJson(config, path, *)
(* options) with the path and options returned here.                        *)

ToFetch(path, options) == [thrown |-> FALSE, path |-> path, options |-> options]

\* the constructor keeping the trimmed key
EtoileConstructor_TrimKey(config) ==
    IF Falsy(config) \/ TypeOf(config) # "object"
    THEN Throw(createEtoileError("INVALID_INPUT", "Config is required."))
    ELSE IF assertNonEmptyString(Get(config, "apiKey"), "apiKey").thrown
    THEN assertNonEmptyString(Get(config, "apiKey"), "apiKey")
    ELSE [thrown |-> FALSE,
          config |-> [apiKey  |-> Trim(Get(config, "apiKey")),
                      baseUrl |-> Coalesce(Get(config, "baseUrl"), API_URL)]]

\* the constructor without the !config test: reading null.apiKey throws a
\* TypeError
EtoileConstructor_NullConfig(config) ==
    IF config = Null
    THEN Throw(TypeErrorOf("Cannot read properties of null"))
    ELSE IF TypeOf(config) # "object"
    THEN Throw(createEtoileError("INVALID_INPUT", "Config is required."))
    ELSE IF assertNonEmptyString(Get(config, "apiKey"), "apiKey").thrown
    THEN assertNonEmptyString(Get(config, "apiKey"), "apiKey")
    ELSE [thrown |-> FALSE,
          config |-> [apiKey  |-> Get(config, "apiKey"),
                      baseUrl |-> Coalesce(Get(config, "baseUrl"), API_URL)]]

\* new Etoile(config): throws, or sets this.config
EtoileConstructor(config) ==
    IF Falsy(config) \/ TypeOf(config) # "object"
    THEN Throw(createEtoileError("INVALID_INPUT", "Config is required."))
    ELSE IF assertNonEmptyString(Get(config, "apiKey"), "apiKey").thrown
    THEN assertNonEmptyString(Get(config, "apiKey"), "apiKey")
    ELSE [thrown |-> FALSE,
          config |-> [apiKey  |-> Get(config, "apiKey"),
                      baseUrl |-> Coalesce(Get(config, "baseUrl"), API_URL)]]

\* index forwarding its whole input: body: input
index_Spread(input) ==
    LET checks == FirstThrow(<<
            assertNonEmptyString(Get(input, "id"), "id"),
            assertNonEmptyString(Get(input, "collection"), "collection"),
            assertNonEmptyString(Get(input, "title"), "title"),
            assertContent(Get(input, "content"))>>)
    IN  IF checks.thrown THEN checks
        ELSE ToFetch(<<"/","i","n","d","e","x">>, [method |-> "POST", body |-> input])

index(input) ==
    LET checks == FirstThrow(<<
            assertNonEmptyString(Get(input, "id"), "id"),
            assertNonEmptyString(Get(input, "collection"), "collection"),
            assertNonEmptyString(Get(input, "title"), "title"),
            assertContent(Get(input, "content"))>>)
    IN  IF checks.thrown THEN checks
        ELSE ToFetch(<<"/","i","n","d","e","x">>,
                 [method |-> "POST",
                  body   |-> Obj([id         |-> Get(input, "id"),
                                  collection |-> Get(input, "collection"),
                                  title      |-> Get(input, "title"),
                                  content    |-> Get(input, "content"),
                                  metadata   |-> Get(input, "metadata")])])

\* the limit test with < in place of <=
searchLimit_AllowZero(input) ==
    LET limit == Get(input, "limit")
    IN  IF limit # Undef /\ (~IsFinite(limit) \/ limit.halves < 0)
        THEN Throw(createEtoileError("INVALID_INPUT", "limit must be a positive number."))
        ELSE Normal

\* input.limit !== undefined && (!Number.isFinite(input.limit) || input.limit <= 0)
searchLimit(input) ==
    LET limit == Get(input, "limit")
    IN  IF limit # Undef /\ (~IsFinite(limit) \/ limit.halves <= 0)
        THEN Throw(createEtoileError("INVALID_INPUT", "limit must be a positive number."))
        ELSE Normal

\* the offset test with <= in place of <
searchOffset_RejectZero(input) ==
    LET offset == Get(input, "offset")
    IN  IF offset # Undef /\ (~IsFinite(offset) \/ offset.halves <= 0)
        THEN Throw(createEtoileError("INVALID_INPUT", "offset must be a non-negative number."))
        ELSE Normal

\* input.offset !== undefined && (!Number.isFinite(input.offset) || input.offset < 0)
searchOffset(input) ==
    LET offset == Get(input, "offset")
    IN  IF offset # Undef /\ (~IsFinite(offset) \/ offset.halves < 0)
        THEN Throw(createEtoileError("INVALID_INPUT", "offset must be a non-negative number."))
        ELSE Normal

\* the exclusion tested on truthiness: input.filters && input.autoFilters
searchExclusive_Truthy(input) ==
    IF ~Falsy(Get(input, "filters")) /\ ~Falsy(Get(input, "autoFilters"))
    THEN Throw(createEtoileError("INVALID_INPUT",
                   "filters and autoFilters are mutually exclusive."))
    ELSE Normal

\* input.filters !== undefined && input.autoFilters !== undefined
searchExclusive(input) ==
    IF Get(input, "filters") # Undef /\ Get(input, "autoFilters") # Undef
    THEN Throw(createEtoileError("INVALID_INPUT",
                   "filters and autoFilters are mutually exclusive."))
    ELSE Normal

\* the value of a filter tested on truthiness: !filter.value
searchFilter_FalsyValue(filter) ==
    IF Falsy(filter) \/ TypeOf(filter) # "object"
    THEN Throw(createEtoileError("INVALID_INPUT", "Each filter must be an object."))
    ELSE FirstThrow(<<
            assertNonEmptyString(Get(filter, "key"), "filter.key"),
            assertNonEmptyString(Get(filter, "operator"), "filter.operator"),
            IF Falsy(Get(filter, "value"))
            THEN Throw(createEtoileError("INVALID_INPUT", "filter.value is required."))
            ELSE Normal>>)

\* the body of the loop over input.filters
searchFilter(filter) ==
    IF Falsy(filter) \/ TypeOf(filter) # "object"
    THEN Throw(createEtoileError("INVALID_INPUT", "Each filter must be an object."))
    ELSE FirstThrow(<<
            assertNonEmptyString(Get(filter, "key"), "filter.key"),
            assertNonEmptyString(Get(filter, "operator"), "filter.operator"),
            IF Get(filter, "value") = Undef \/ Get(filter, "value") = Null
            THEN Throw(createEtoileError("INVALID_INPUT", "filter.value is required."))
            ELSE Normal>>)

searchFilters(input) ==
    LET filters == Get(input, "filters")
    IN  IF filters = Undef THEN Normal
        ELSE IF ~IsArray(filters) \/ Len(filters.a) = 0
        THEN Throw(createEtoileError("INVALID_INPUT", "filters must be a non-empty array."))
        ELSE FirstThrow([i \in 1..Len(filters.a) |-> searchFilter(filters.a[i])])

\* the request body with filters and autoFilters added on truthiness:
\* if (input.filters) ... if (input.autoFilters) ...
searchBody_Truthy(input) ==
    LET base == [query       |-> Get(input, "query"),
                 collections |-> Get(input, "collections"),
                 limit       |-> Coalesce(Get(input, "limit"), Num(20)),
                 offset      |-> Coalesce(Get(input, "offset"), Num(0))]
        withFilters ==
            IF ~Falsy(Get(input, "filters"))
            THEN base @@ [filters |-> Get(input, "filters")]
            ELSE base
        withAuto ==
            IF ~Falsy(Get(input, "autoFilters"))
            THEN withFilters @@ [autoFilters |-> Get(input, "autoFilters")]
            ELSE withFilters
    IN  Obj(withAuto)

\* the request body of search: filters and autoFilters only when set
searchBody(input) ==
    LET base == [query       |-> Get(input, "query"),
                 collections |-> Get(input, "collections"),
                 limit       |-> Coalesce(Get(input, "limit"), Num(20)),
                 offset      |-> Coalesce(Get(input, "offset"), Num(0))]
        withFilters ==
            IF Get(input, "filters") # Undef
            THEN base @@ [filters |-> Get(input, "filters")]
            ELSE base
        withAuto ==
            IF Get(input, "autoFilters") # Undef
            THEN withFilters @@ [autoFilters |-> Get(input, "autoFilters")]
            ELSE withFilters
    IN  Obj(withAuto)

\* search testing the exclusion of filters and autoFilters first
search_ExclusionFirst(input) ==
    LET checks == FirstThrow(<<
            searchExclusive(input),
            assertNonEmptyString(Get(input, "query"), "query"),
            validateCollections(Get(input, "collections")),
            searchLimit(input),
            searchOffset(input),
            searchFilters(input)>>)
    IN  IF checks.thrown THEN checks
        ELSE ToFetch(<<"/","s","e","a","r","c","h">>,
                 [method |-> "POST", body |-> searchBody(input)])

search(input) ==
    LET checks == FirstThrow(<<
            assertNonEmptyString(Get(input, "query"), "query"),
            validateCollections(Get(input, "collections")),
            searchLimit(input),
            searchOffset(input),
            searchExclusive(input),
            searchFilters(input)>>)
    IN  IF checks.thrown THEN checks
        ELSE ToFetch(<<"/","s","e","a","r","c","h">>,
                 [method |-> "POST", body |-> searchBody(input)])

\* delete addressing the document in the path: DELETE /documents/{id}, no body
delete_PathId(id) ==
    LET checks == assertNonEmptyString(id, "id")
    IN  IF checks.thrown THEN checks
        ELSE ToFetch(<<"/","d","o","c","u","m","e","n","t","s","/">> \o id.s,
                 [method |-> "DELETE", body |-> Undef])

delete(id) ==
    LET checks == assertNonEmptyString(id, "id")
    IN  IF checks.thrown THEN checks
        ELSE ToFetch(<<"/","d","o","c","u","m","e","n","t","s">>,
                 [method |-> "DELETE", body |-> Obj([id |-> id])])

\* patch without the !input.metadata test: null, whose typeof is "object",
\* gets through
patch_TypeofOnly(input) ==
    LET checks == FirstThrow(<<
            assertNonEmptyString(Get(input, "id"), "id"),
            IF TypeOf(Get(input, "metadata")) # "object"
            THEN Throw(createEtoileError("INVALID_INPUT", "metadata is required."))
            ELSE Normal>>)
    IN  IF checks.thrown THEN checks
        ELSE ToFetch(<<"/","d","o","c","u","m","e","n","t","s">>,
                 [method |-> "PATCH",
                  body   |-> Obj([id       |-> Get(input, "id"),
                                  metadata |-> Get(input, "metadata")])])

patch(input) ==
    LET checks == FirstThrow(<<
            assertNonEmptyString(Get(input, "id"), "id"),
            IF Falsy(Get(input, "metadata")) \/ TypeOf(Get(input, "metadata")) # "object"
            THEN Throw(createEtoileError("INVALID_INPUT", "metadata is required."))
            ELSE Normal>>)
    IN  IF checks.thrown THEN checks
        ELSE ToFetch(<<"/","d","o","c","u","m","e","n","t","s">>,
                 [method |-> "PATCH",
                  body   |-> Obj([id       |-> Get(input, "id"),
                                  metadata |-> Get(input, "metadata")])])

----------------------------------------------------------------------------
(* list and get.  client.ts as given has no list and no get: the two        *)
(* methods are known from their tests, from the README and from the types   *)
(* ListInput and Document.  They are written here after the description   *)
(* of the interface: list takes {limit?: 1..100, default 20;                *)
(* offset?: >= 0, default 0} and requests /documents with {limit, offset};  *)
(* get takes a required id and requests GET /documents/{id}; both validate  *)
(* as the other methods do and return the parsed body.  The description     *)
(* leaves open whether list is a GET or a POST; POST is taken here.         *)

\* list validating its limit as search does: any positive number
list_SearchLimit(input) ==
    LET checks == FirstThrow(<<searchLimit(input), searchOffset(input)>>)
    IN  IF checks.thrown THEN checks
        ELSE ToFetch(<<"/","d","o","c","u","m","e","n","t","s">>,
                 [method |-> "POST",
                  body   |-> Obj([limit  |-> Coalesce(Get(input, "limit"), Num(40)),
                                  offset |-> Coalesce(Get(input, "offset"), Num(0))])])

list(input) ==
    LET limit == Get(input, "limit")
        checks == FirstThrow(<<
            IF limit # Undef
               /\ (~IsFinite(limit) \/ limit.halves < 2 \/ limit.halves > 200)
            THEN Throw(createEtoileError("INVALID_INPUT",
                           "limit must be between 1 and 100."))
            ELSE Normal,
            searchOffset(input)>>)
    IN  IF checks.thrown THEN checks
        ELSE ToFetch(<<"/","d","o","c","u","m","e","n","t","s">>,
                 [method |-> "POST",
                  body   |-> Obj([limit  |-> Coalesce(Get(input, "limit"), Num(40)),
                                  offset |-> Coalesce(Get(input, "offset"), Num(0))])])

\* get without the trim in the test of its id
get_NoTrim(id) ==
    LET checks == assertNonEmptyString_NoTrim(id, "id")
    IN  IF checks.thrown THEN checks
        ELSE ToFetch(<<"/","d","o","c","u","m","e","n","t","s","/">> \o id.s,
                 [method |-> "GET", body |-> Undef])

get(id) ==
    LET checks == assertNonEmptyString(id, "id")
    IN  IF checks.thrown THEN checks
        ELSE ToFetch(<<"/","d","o","c","u","m","e","n","t","s","/">> \o id.s,
                 [method |-> "GET", body |-> Undef])

\* the synchronous part of the public method op on input
Method(op, input) ==
    CASE op = "index"  -> index(input)
      [] op = "search" -> search(input)
      [] op = "delete" -> delete(input)
      [] op = "patch"  -> patch(input)
      [] op = "list"   -> list(input)
      [] op = "get"    -> get(input)

\* the operations that return the parsed body to the caller; index, delete
\* and patch await fetchJson and return nothing
ReturnsBody(op) == op \in {"search", "list", "get"}

----------------------------------------------------------------------------
(* fetch.ts: the synchronous part of fetchJson.  The argument of fetch is   *)
(* evaluated first, so a body that JSON.stringify cannot encode throws      *)
(* inside the try block before fetch is called.                             *)

fetchJsonCall(config, path, options) ==
    IF options.body # Undef /\ JSONstringify(options.body).thrown
    THEN [sent |-> FALSE, rejection |-> fetchJsonCatch(JSONstringify(options.body).value)]
    ELSE [sent |-> TRUE, request |-> fetchRequest(config, path, options)]

----------------------------------------------------------------------------
(* The values the environment supplies: arguments of the caller, responses  *)
(* of the server, failures of the network.  A run is explored around the    *)
(* plain successful case: the configuration, the input of a call and the    *)
(* response to it deviate from the plain ones in at most MaxPerturbed       *)
(* places together (a property of the configuration or of the input, the    *)
(* status, the body, a failure of fetch; an array of n > 1 elements counts  *)
(* as n places).                                                            *)

Chars == {" ", "x"}

Strs == UNION {[1..n -> Chars] : n \in 0..MaxStrLen}

StringVals == {Str(s) : s \in Strs}

\* what a caller may pass where a string is required
RequiredStringInputs == StringVals \cup {Undef, Null, Num(2), EmptyObj}

ArraysOf(elems) == {Arr(a) : a \in UNION {[1..n -> elems] : n \in 0..MaxArrLen}}

MetadataInputs ==
    {Undef, Null, Str(<<"x">>), Arr(<<>>), EmptyObj, Obj([year |-> Num(2)]),
     Obj([big |-> BigInt])}

CollectionElems == {Str(<<>>), Str(<<"x">>), Str(<<" ", "x">>), Num(2)}

CollectionsInputs == {Undef, Null, Str(<<"x">>), EmptyObj} \cup ArraysOf(CollectionElems)

LimitInputs ==
    {Undef, Null, Str(<<"x">>), Bool(TRUE), NaN, Infinity, NegInfinity,
     Num(-2), Num(-1), Num(0), Num(1), Num(2), Num(3)}

GoodFilter == [key |-> Str(<<"x">>), operator |-> Str(<<"e", "q">>), value |-> Str(<<"x">>)]

FilterElems ==
    {Null, Str(<<"x">>), Arr(<<>>), Obj(GoodFilter),
     Obj([GoodFilter EXCEPT !.operator = Str(<<"x">>), !.value = Bool(FALSE)]),
     Obj([GoodFilter EXCEPT !.value = BigInt]),
     Obj([GoodFilter EXCEPT !.key = Str(<<" ">>)]),
     Obj([GoodFilter EXCEPT !.operator = Undef]),
     Obj([GoodFilter EXCEPT !.value = Null]),
     Obj([GoodFilter EXCEPT !.key = Undef, !.value = Undef])}

FiltersInputs == {Undef, Null, Str(<<"x">>), EmptyObj} \cup ArraysOf(FilterElems)

AutoFiltersInputs == {Undef, Null, Bool(TRUE), Bool(FALSE)}

\* the plain arguments
BaseConfig == [apiKey |-> Str(<<"x">>), baseUrl |-> Undef]

BaseIndex ==
    [id |-> Str(<<"x">>), collection |-> Str(<<"x">>), title |-> Str(<<"x">>),
     content |-> Str(<<"x">>), metadata |-> Undef, extra |-> Undef]

BaseSearch ==
    [query |-> Str(<<"x">>), collections |-> Arr(<<Str(<<"x">>)>>),
     limit |-> Undef, offset |-> Undef, filters |-> Undef, autoFilters |-> Undef]

BasePatch == [id |-> Str(<<"x">>), metadata |-> EmptyObj, title |-> Undef]

BaseList == [limit |-> Undef, offset |-> Undef]

BaseId == Str(<<"x">>)

\* the values of each property
ConfigDomain ==
    [apiKey  |-> {Undef, Null, Num(2), Str(<<>>), Str(<<" ">>), Str(<<"x">>),
                  Str(<<" ", "x">>), Str(<<"x", " ">>)},
     baseUrl |-> {Undef, Null, Str(<<>>), Str(<<"u">>)}]

IndexDomain ==
    [id |-> RequiredStringInputs, collection |-> RequiredStringInputs,
     title |-> RequiredStringInputs, content |-> RequiredStringInputs,
     metadata |-> MetadataInputs, extra |-> {Undef, Str(<<"x">>)}]

SearchDomain ==
    [query |-> RequiredStringInputs, collections |-> CollectionsInputs,
     limit |-> LimitInputs, offset |-> LimitInputs,
     filters |-> FiltersInputs, autoFilters |-> AutoFiltersInputs]

PatchDomain ==
    [id |-> RequiredStringInputs, metadata |-> MetadataInputs,
     title |-> {Undef, Str(<<"x">>)}]

\* list takes a limit up to 100: 100 is Num(200)
ListLimitInputs == LimitInputs \cup {Num(40), Num(200), Num(201), Num(202)}

ListDomain == [limit |-> ListLimitInputs, offset |-> LimitInputs]

\* the places a value takes when it deviates
Cost(v) == IF v.t = "array" /\ Len(v.a) > 1 THEN Len(v.a) ELSE 1

RECURSIVE SumCost(_, _)
SumCost(o, props) ==
    IF props = {} THEN 0
    ELSE LET p == CHOOSE q \in props : TRUE
         IN  Cost(o[p]) + SumCost(o, props \ {p})

\* in how many places the object o deviates from base
Deviation(o, base) == SumCost(o, {p \in DOMAIN base : o[p] # base[p]})

\* the sets of at most k properties of base that deviate
Deviating(base, k) == {S \in SUBSET DOMAIN base : Cardinality(S) <= k}

\* the values of property p when the properties in S deviate, in at most k
\* places together
Pick(base, dom, S, p, k) ==
    IF p \in S
    THEN {v \in dom[p] \ {base[p]} : Cost(v) <= k - (Cardinality(S) - 1)}
    ELSE {base[p]}

Statuses == {200, 204, 301, 404, 500}

Bodies ==
    {Garbage,
     [t |-> "text", failure |-> TypeErrorOf("terminated")],
     [t |-> "text", failure |-> Lit("aborted")]}
    \cup {JsonText(j) : j \in
            {EmptyObj,
             Obj([error |-> Lit("Not found.")]),
             Obj([query |-> Lit("x"), results |-> Arr(<<>>)]),
             Obj([documents |-> Arr(<<>>)]),
             Obj([document |-> Obj([title |-> Lit("t")])]),
             Arr(<<>>), Lit("oops"), Num(20), Bool(TRUE), Null}}

BaseResponse == [status |-> 200, body |-> JsonText(EmptyObj)]

Responses == [status : Statuses, body : Bodies]

\* what the promise of fetch may reject with
FetchFailures == {TypeErrorOf("fetch failed"), Lit("boom"), Undef, Null}

----------------------------------------------------------------------------
(* State *)

Slots == 1..MaxCalls

NoRequest == [none |-> TRUE]
NoResponse == [none |-> TRUE]
NoFailure == [none |-> TRUE]

Pending == [state |-> "pending"]
Fulfilled(v) == [state |-> "fulfilled", value |-> v]
Rejected(e) == [state |-> "rejected", value |-> e]

\* a call slot with no call in it
IdleCall ==
    [pc |-> "idle", op |-> "none", input |-> Undef, budget |-> 0, sent |-> 0,
     request |-> NoRequest, response |-> NoResponse, failure |-> NoFailure,
     outcome |-> Pending]

NoClient == [state |-> "none", argument |-> Undef, config |-> Undef, error |-> Undef]

Init ==
    /\ client = NoClient
    /\ calls = [c \in Slots |-> IdleCall]

----------------------------------------------------------------------------
(* Actions *)

\* new Etoile(config) has run on argument
Constructed(argument) ==
    LET r == EtoileConstructor(argument)
    IN  client' = IF r.thrown
                  THEN [state |-> "threw", argument |-> argument,
                        config |-> Undef, error |-> r.value]
                  ELSE [state |-> "ready", argument |-> argument,
                        config |-> r.config, error |-> Undef]

\* new Etoile(config)
Construct ==
    /\ client.state = "none"
    /\ \/ \E argument \in {Undef, Null, Str(<<"x">>), Arr(<<>>)} : Constructed(argument)
       \/ \E S \in Deviating(BaseConfig, MaxPerturbed) :
            \E apiKey \in Pick(BaseConfig, ConfigDomain, S, "apiKey", MaxPerturbed),
               baseUrl \in Pick(BaseConfig, ConfigDomain, S, "baseUrl", MaxPerturbed) :
                 Constructed(Obj([apiKey |-> apiKey, baseUrl |-> baseUrl]))
    /\ UNCHANGED calls

\* a method can be called on a constructed client, in a free slot
CanCall(c) == client.state = "ready" /\ calls[c].pc = "idle"

\* the deviations left to the input of a call
CallBudget == MaxPerturbed - Deviation(client.argument.o, BaseConfig)

\* The caller invokes the method op with input in slot c: the method runs up
\* to its first await.  It has then rejected (validation, or the encoding of
\* the body), or it has called fetch once and waits for it.
Invoke(c, op, input, budget) ==
    /\ LET m == Method(op, input)
           started == [IdleCall EXCEPT !.op = op, !.input = input, !.budget = budget]
       IN  IF m.thrown
           THEN calls' = [calls EXCEPT ![c] =
                    [started EXCEPT !.pc = "settled", !.outcome = Rejected(m.value)]]
           ELSE LET f == fetchJsonCall(client.config, m.path, m.options)
                IN  IF f.sent
                    THEN calls' = [calls EXCEPT ![c] =
                             [started EXCEPT !.pc = "fetching", !.sent = 1,
                                             !.request = f.request]]
                    ELSE calls' = [calls EXCEPT ![c] =
                             [started EXCEPT !.pc = "settled",
                                             !.outcome = Rejected(f.rejection)]]
    /\ UNCHANGED client

CallIndex(c) ==
    /\ CanCall(c)
    /\ \E S \in Deviating(BaseIndex, CallBudget) :
         \E id \in Pick(BaseIndex, IndexDomain, S, "id", CallBudget),
            collection \in Pick(BaseIndex, IndexDomain, S, "collection", CallBudget),
            title \in Pick(BaseIndex, IndexDomain, S, "title", CallBudget),
            content \in Pick(BaseIndex, IndexDomain, S, "content", CallBudget),
            metadata \in Pick(BaseIndex, IndexDomain, S, "metadata", CallBudget),
            extra \in Pick(BaseIndex, IndexDomain, S, "extra", CallBudget) :
              LET input == [id |-> id, collection |-> collection, title |-> title,
                            content |-> content, metadata |-> metadata,
                            extra |-> extra]
              IN  /\ Deviation(input, BaseIndex) <= CallBudget
                  /\ Invoke(c, "index", Obj(input),
                            CallBudget - Deviation(input, BaseIndex))

CallSearch(c) ==
    /\ CanCall(c)
    /\ \E S \in Deviating(BaseSearch, CallBudget) :
         \E query \in Pick(BaseSearch, SearchDomain, S, "query", CallBudget),
            collections \in Pick(BaseSearch, SearchDomain, S, "collections", CallBudget),
            limit \in Pick(BaseSearch, SearchDomain, S, "limit", CallBudget),
            offset \in Pick(BaseSearch, SearchDomain, S, "offset", CallBudget),
            filters \in Pick(BaseSearch, SearchDomain, S, "filters", CallBudget),
            autoFilters \in Pick(BaseSearch, SearchDomain, S, "autoFilters", CallBudget) :
              LET input == [query |-> query, collections |-> collections,
                            limit |-> limit, offset |-> offset,
                            filters |-> filters, autoFilters |-> autoFilters]
              IN  /\ Deviation(input, BaseSearch) <= CallBudget
                  /\ Invoke(c, "search", Obj(input),
                            CallBudget - Deviation(input, BaseSearch))

CallDelete(c) ==
    /\ CanCall(c)
    /\ \E id \in IF CallBudget > 0 THEN RequiredStringInputs ELSE {BaseId} :
         Invoke(c, "delete", id, CallBudget - (IF id = BaseId THEN 0 ELSE 1))

CallPatch(c) ==
    /\ CanCall(c)
    /\ \E S \in Deviating(BasePatch, CallBudget) :
         \E id \in Pick(BasePatch, PatchDomain, S, "id", CallBudget),
            metadata \in Pick(BasePatch, PatchDomain, S, "metadata", CallBudget),
            title \in Pick(BasePatch, PatchDomain, S, "title", CallBudget) :
              LET input == [id |-> id, metadata |-> metadata, title |-> title]
              IN  /\ Deviation(input, BasePatch) <= CallBudget
                  /\ Invoke(c, "patch", Obj(input),
                            CallBudget - Deviation(input, BasePatch))

CallList(c) ==
    /\ CanCall(c)
    /\ \E S \in Deviating(BaseList, CallBudget) :
         \E limit \in Pick(BaseList, ListDomain, S, "limit", CallBudget),
            offset \in Pick(BaseList, ListDomain, S, "offset", CallBudget) :
              LET input == [limit |-> limit, offset |-> offset]
              IN  /\ Deviation(input, BaseList) <= CallBudget
                  /\ Invoke(c, "list", Obj(input),
                            CallBudget - Deviation(input, BaseList))

CallGet(c) ==
    /\ CanCall(c)
    /\ \E id \in IF CallBudget > 0 THEN RequiredStringInputs ELSE {BaseId} :
         Invoke(c, "get", id, CallBudget - (IF id = BaseId THEN 0 ELSE 1))

\* the responses that deviate from the plain one in at most k places
ResponsesWithin(k) ==
    {r \in Responses :
        (IF r.status = BaseResponse.status THEN 0 ELSE 1)
        + (IF r.body = BaseResponse.body THEN 0 ELSE 1) <= k}

\* the promise of fetch is fulfilled with a response
FetchResolves(c) ==
    /\ calls[c].pc = "fetching"
    /\ \E response \in ResponsesWithin(calls[c].budget) :
         calls' = [calls EXCEPT ![c] =
             [@ EXCEPT !.response = response,
                       !.pc = IF ResponseOk(response) THEN "json" ELSE "errorPayload"]]
    /\ UNCHANGED client

\* a failure of fetch that makes the client fall back on the default endpoint
FetchRejects_Failover(c) ==
    /\ calls[c].pc = "fetching"
    /\ calls[c].budget > 0
    /\ \E error \in FetchFailures :
         calls' = [calls EXCEPT ![c] =
             [@ EXCEPT !.pc = "settled", !.failure = error,
                       !.outcome = Rejected(fetchJsonCatch(error))]]
    /\ client' = [client EXCEPT !.config.baseUrl = API_URL]

\* the promise of fetch is rejected: the catch block of fetchJson runs
FetchRejects(c) ==
    /\ calls[c].pc = "fetching"
    /\ calls[c].budget > 0
    /\ \E error \in FetchFailures :
         calls' = [calls EXCEPT ![c] =
             [@ EXCEPT !.pc = "settled", !.failure = error,
                       !.outcome = Rejected(fetchJsonCatch(error))]]
    /\ UNCHANGED client

\* the parsed body taken from a response shared between the calls
ResponseJson_Shared(c) ==
    /\ calls[c].pc = "json"
    /\ LET d == CHOOSE s \in Slots :
                    /\ calls[s].response # NoResponse
                    /\ \A e \in Slots : calls[e].response # NoResponse => s <= e
           r == responseJson(calls[d].response)
       IN  calls' = [calls EXCEPT ![c] =
             [@ EXCEPT !.pc = "settled",
                       !.outcome =
                           IF r.thrown THEN Rejected(fetchJsonCatch(r.value))
                           ELSE IF ReturnsBody(calls[c].op) THEN Fulfilled(r.value)
                           ELSE Fulfilled(Undef)]]
    /\ UNCHANGED client

\* the parsed body of search checked for its results and defaulted
ResponseJson_Defaulted(c) ==
    /\ calls[c].pc = "json"
    /\ LET r == responseJson(calls[c].response)
       IN  calls' = [calls EXCEPT ![c] =
             [@ EXCEPT !.pc = "settled",
                       !.outcome =
                           IF r.thrown THEN Rejected(fetchJsonCatch(r.value))
                           ELSE IF ~ReturnsBody(calls[c].op) THEN Fulfilled(Undef)
                           ELSE IF Get(r.value, "results") = Undef
                           THEN Fulfilled(Obj([results |-> Arr(<<>>)]))
                           ELSE Fulfilled(r.value)]]
    /\ UNCHANGED client

\* the body parsed only by the operations that return it
ResponseJson_IgnoreBody(c) ==
    /\ calls[c].pc = "json"
    /\ LET r == responseJson(calls[c].response)
       IN  calls' = [calls EXCEPT ![c] =
             [@ EXCEPT !.pc = "settled",
                       !.outcome =
                           IF ~ReturnsBody(calls[c].op) THEN Fulfilled(Undef)
                           ELSE IF r.thrown THEN Rejected(fetchJsonCatch(r.value))
                           ELSE Fulfilled(r.value)]]
    /\ UNCHANGED client

\* response.json() of an ok response settles; index, delete and patch drop
\* the parsed value
ResponseJson(c) ==
    /\ calls[c].pc = "json"
    /\ LET r == responseJson(calls[c].response)
       IN  calls' = [calls EXCEPT ![c] =
             [@ EXCEPT !.pc = "settled",
                       !.outcome =
                           IF r.thrown THEN Rejected(fetchJsonCatch(r.value))
                           ELSE IF ReturnsBody(calls[c].op) THEN Fulfilled(r.value)
                           ELSE Fulfilled(Undef)]]
    /\ UNCHANGED client

\* a non-ok response answered by a second attempt
ErrorPayload_Retry(c) ==
    /\ calls[c].pc = "errorPayload"
    /\ calls' = [calls EXCEPT ![c] =
         IF calls[c].sent < 2
         THEN [@ EXCEPT !.pc = "fetching", !.sent = @ + 1, !.response = NoResponse]
         ELSE [@ EXCEPT !.pc = "settled",
                        !.outcome = Rejected(fetchJsonCatch(
                                        parseErrorPayload(calls[c].response)))]]
    /\ UNCHANGED client

\* parseErrorPayload of a non-ok response settles and its payload is thrown
ErrorPayload(c) ==
    /\ calls[c].pc = "errorPayload"
    /\ calls' = [calls EXCEPT ![c] =
         [@ EXCEPT !.pc = "settled",
                   !.outcome = Rejected(fetchJsonCatch(parseErrorPayload(calls[c].response)))]]
    /\ UNCHANGED client

\* a way for the caller to abort a call in flight
Return_Abort(c) ==
    /\ calls[c].pc \in {"settled", "fetching"}
    /\ calls' = [calls EXCEPT ![c] = IdleCall]
    /\ UNCHANGED client

\* the caller has seen the outcome; the slot is free for the next call
Return(c) ==
    /\ calls[c].pc = "settled"
    /\ calls' = [calls EXCEPT ![c] = IdleCall]
    /\ UNCHANGED client

Step(c) ==
    \/ CallIndex(c)
    \/ CallSearch(c)
    \/ CallDelete(c)
    \/ CallPatch(c)
    \/ CallList(c)
    \/ CallGet(c)
    \/ FetchResolves(c)
    \/ FetchRejects(c)
    \/ ResponseJson(c)
    \/ ErrorPayload(c)
    \/ Return(c)

\* one call at a time, over the full range of inputs
Next == Construct \/ Step(1)

Spec == Init /\ [][Next]_vars

----------------------------------------------------------------------------
(* The calls of Spec under the assumption that a promise of the platform    *)
(* that a call awaits (the one of fetch, the one of response.json())        *)
(* settles in the end, and that the continuation of the call then runs.     *)
SpecLive ==
    /\ Spec
    /\ WF_vars(FetchResolves(1) \/ FetchRejects(1))
    /\ WF_vars(ResponseJson(1))
    /\ WF_vars(ErrorPayload(1))

----------------------------------------------------------------------------
(* Concurrent calls.  Every slot is in use and the steps of the calls       *)
(* interleave freely; the calls are taken from a small set of inputs on a   *)
(* client built from the plain configuration.                               *)

\* the calls that run concurrently: two searches that differ, a search that
\* may meet any single deviation of the response or a network failure, and
\* calls that reject before any request
ConcCalls ==
    {[op |-> "search", input |-> Obj(BaseSearch), budget |-> 1],
     [op |-> "search", input |-> Obj([BaseSearch EXCEPT !.limit = Num(2)]), budget |-> 0],
     [op |-> "index", input |-> Obj(BaseIndex), budget |-> 0],
     [op |-> "delete", input |-> Str(<<" ">>), budget |-> 0],
     [op |-> "patch", input |-> Obj([BasePatch EXCEPT !.metadata = Obj([big |-> BigInt])]),
      budget |-> 0]}

\* a method is called in slot c while other calls may be in flight
ConcCall(c) ==
    /\ CanCall(c)
    /\ client.argument = Obj(BaseConfig)
    /\ \E k \in ConcCalls : Invoke(c, k.op, k.input, k.budget)

StepConc(c) ==
    \/ ConcCall(c)
    \/ FetchResolves(c)
    \/ FetchRejects(c)
    \/ ResponseJson(c)
    \/ ErrorPayload(c)
    \/ Return(c)

NextConc == Construct \/ \E c \in Slots : StepConc(c)

SpecConc == Init /\ [][NextConc]_vars

----------------------------------------------------------------------------
(* Searches whose input breaks several rules at once: every property of the *)
(* input is plain or breaks its rule, in every combination, on a client     *)
(* built from the plain configuration and with the plain response.          *)

\* elements of filters that break no rule, one rule, or several
OrderFilterElems ==
    {Obj(GoodFilter), Null,
     Obj([GoodFilter EXCEPT !.key = Str(<<" ">>), !.value = Null]),
     Obj([GoodFilter EXCEPT !.operator = Undef, !.value = Undef])}

OrderDomain ==
    [query       |-> {Str(<<"x">>), Str(<<" ">>)},
     collections |-> {Arr(<<Str(<<"x">>)>>), Arr(<<>>)},
     limit       |-> {Undef, Num(0)},
     offset      |-> {Undef, Num(-1)},
     filters     |-> {Undef} \cup ArraysOf(OrderFilterElems),
     autoFilters |-> {Undef, Bool(FALSE)}]

SearchAnyOrder(c) ==
    /\ CanCall(c)
    /\ client.argument = Obj(BaseConfig)
    /\ \E input \in [query : OrderDomain.query, collections : OrderDomain.collections,
                     limit : OrderDomain.limit, offset : OrderDomain.offset,
                     filters : OrderDomain.filters,
                     autoFilters : OrderDomain.autoFilters] :
         Invoke(c, "search", Obj(input), 0)

NextOrder ==
    \/ Construct
    \/ SearchAnyOrder(1)
    \/ FetchResolves(1)
    \/ ResponseJson(1)
    \/ Return(1)

SpecOrder == Init /\ [][NextOrder]_vars

----------------------------------------------------------------------------
(* Vocabulary of the properties *)

\* a call is in slot c
InCall(c) == calls[c].pc # "idle"

Settled(c) == calls[c].pc = "settled"

RejectedCall(c) == Settled(c) /\ calls[c].outcome.state = "rejected"

\* the call in slot c has rejected with an INVALID_INPUT error
RejectedInvalidInput(c) ==
    RejectedCall(c) /\ Get(calls[c].outcome.value, "code") = Lit("INVALID_INPUT")

\* ... and with this message
RejectedWithMessage(c, message) ==
    RejectedInvalidInput(c) /\ Get(calls[c].outcome.value, "message") = Lit(message)

\* no request was issued in the call in slot c
NoFetch(c) == calls[c].sent = 0 /\ calls[c].request = NoRequest

\* a string with at least one character that is no white space
NonBlankString(v) ==
    /\ v.t = "string"
    /\ \E i \in 1..Len(v.s) : v.s[i] \notin WhiteSpace

\* the values of the required string fields of the call in slot c
RequiredStrings(c) ==
    CASE calls[c].op = "index" ->
           {Get(calls[c].input, p) : p \in {"id", "collection", "title", "content"}}
      [] calls[c].op = "search" -> {Get(calls[c].input, "query")}
      [] calls[c].op = "delete" -> {calls[c].input}
      [] calls[c].op = "patch" -> {Get(calls[c].input, "id")}
      [] OTHER -> {}

SearchCall(c) == InCall(c) /\ calls[c].op = "search"

----------------------------------------------------------------------------
(* C1: in index, search, delete and patch, a required string field (index: *)
(* id, collection, title, content; search: query; delete: id; patch: id)    *)
(* that is not a string or is blank after trimming makes the call reject    *)
(* with code INVALID_INPUT, and no request is issued in that call.          *)
C1_BlankRequiredStringRejected ==
    \A c \in Slots :
        InCall(c) /\ (\E v \in RequiredStrings(c) : ~NonBlankString(v))
            => RejectedInvalidInput(c) /\ NoFetch(c)

C1_Witness ==
    \E c \in Slots :
        /\ calls[c].op = "index"
        /\ Get(calls[c].input, "content") = Str(<<" ", " ">>)
        /\ RejectedWithMessage(c, "content is required.")
        /\ NoFetch(c)

(* C2: search rejects with INVALID_INPUT whenever filters and autoFilters   *)
(* are both present (not undefined), whatever their values, and issues no   *)
(* request.                                                                 *)
C2_FiltersAndAutoFiltersExclusive ==
    \A c \in Slots :
        /\ SearchCall(c)
        /\ Get(calls[c].input, "filters") # Undef
        /\ Get(calls[c].input, "autoFilters") # Undef
        => RejectedInvalidInput(c) /\ NoFetch(c)

C2_Witness ==
    \E c \in Slots :
        /\ SearchCall(c)
        /\ Get(calls[c].input, "filters") = Arr(<<Obj(GoodFilter)>>)
        /\ Get(calls[c].input, "autoFilters") = Bool(FALSE)
        /\ RejectedWithMessage(c, "filters and autoFilters are mutually exclusive.")
        /\ NoFetch(c)

(* C3: when fetch fails with an exception of any kind (an Error object or a *)
(* thrown non-object value), the call rejects with a value whose error      *)
(* field is "Network request failed.".                                      *)
C3_NetworkFailureNormalized ==
    \A c \in Slots :
        Settled(c) /\ calls[c].failure # NoFailure
            => /\ calls[c].outcome.state = "rejected"
               /\ Get(calls[c].outcome.value, "error") = Lit("Network request failed.")

(* C4 as stated: every failure a caller can observe (constructor throw or  *)
(* method rejection) has a string code and a string message.                *)
C4_EveryFailureIsEtoileError ==
    /\ client.state = "threw" =>
           /\ TypeOf(Get(client.error, "code")) = "string"
           /\ TypeOf(Get(client.error, "message")) = "string"
    /\ \A c \in Slots :
           RejectedCall(c) =>
               /\ TypeOf(Get(calls[c].outcome.value, "code")) = "string"
               /\ TypeOf(Get(calls[c].outcome.value, "message")) = "string"

\* the argument of the call in slot c holds a value JSON cannot encode
Unencodable(c) == StringifyThrows(calls[c].input)

(* C4 amended: every validation failure (a constructor throw, or a method   *)
(* rejection before any request that is not due to the encoding of the      *)
(* body) is an EtoileError: name "EtoileError", a string code, a string     *)
(* message.                                                                 *)
C4_ValidationFailureIsEtoileError ==
    /\ client.state = "threw" => isEtoileError(client.error)
    /\ \A c \in Slots :
           RejectedCall(c) /\ NoFetch(c) /\ ~Unencodable(c)
               => isEtoileError(calls[c].outcome.value)

C4_Witness ==
    \E c \in Slots :
        /\ calls[c].op = "patch"
        /\ Get(calls[c].input, "metadata") = Null
        /\ RejectedWithMessage(c, "metadata is required.")
        /\ NoFetch(c)

\* the body of a response is the JSON text of an object (arrays included)
BodyIsJsonObject(response) ==
    /\ "json" \in DOMAIN response.body
    /\ response.body.json.t \in {"object", "array"}

(* C5: on a non-2xx response the call rejects with the parsed body itself   *)
(* when the body parses to an object, and with {error: "Request failed."}   *)
(* when the body is no JSON or parses to a non-object.                      *)
C5_NonOkRejectsWithPayload ==
    \A c \in Slots :
        /\ Settled(c)
        /\ calls[c].response # NoResponse
        /\ calls[c].response.status \notin 200..299
        => calls[c].outcome =
               IF BodyIsJsonObject(calls[c].response)
               THEN Rejected(calls[c].response.body.json)
               ELSE Rejected(Obj([error |-> Lit("Request failed.")]))

C5_Witness ==
    \E c \in Slots :
        /\ Settled(c)
        /\ calls[c].response # NoResponse
        /\ calls[c].response.status = 404
        /\ calls[c].response.body = JsonText(Lit("oops"))
        /\ calls[c].outcome = Rejected(Obj([error |-> Lit("Request failed.")]))

\* the input of the call in slot c passes the validation of its method
Validated(c) == InCall(c) /\ ~Method(calls[c].op, calls[c].input).thrown

\* the request body of the validated call in slot c
BodyOf(c) == Method(calls[c].op, calls[c].input).options.body

(* C6 as stated: every call whose input passes validation issues exactly    *)
(* one request, whatever the outcome.                                       *)
C6_ExactlyOneRequest ==
    \A c \in Slots : Validated(c) => calls[c].sent = 1

(* C6 amended: a call whose input passes validation issues at most one      *)
(* request, whatever the outcome (no retry), and exactly one unless its     *)
(* request body cannot be encoded as JSON (a BigInt in metadata or in a     *)
(* filter value): then it rejects before fetch is called, with no request.  *)
C6_OneRequestUnlessUnencodable ==
    \A c \in Slots :
        Validated(c) =>
            /\ calls[c].sent = IF StringifyThrows(BodyOf(c)) THEN 0 ELSE 1
            /\ calls[c].sent = 0 => RejectedCall(c) /\ ~RejectedInvalidInput(c)

C6_Witness ==
    \E c \in Slots :
        /\ Settled(c)
        /\ Validated(c)
        /\ calls[c].response # NoResponse
        /\ calls[c].response.status = 500
        /\ calls[c].outcome.state = "rejected"
        /\ calls[c].sent = 1

(* C7: every request carries the header Authorization equal to "Bearer "    *)
(* followed by the apiKey exactly as given at construction (untrimmed), and *)
(* the header Content-Type equal to application/json.                       *)
C7_AuthorizationHeader ==
    \A c \in Slots :
        calls[c].request # NoRequest =>
            /\ calls[c].request.headers["Authorization"] =
                   Str(<<"B","e","a","r","e","r"," ">> \o Get(client.argument, "apiKey").s)
            /\ calls[c].request.headers["Content-Type"] = Lit("application/json")
            /\ DOMAIN calls[c].request.headers = {"Authorization", "Content-Type"}

C7_Witness ==
    \E c \in Slots :
        /\ Get(client.argument, "apiKey") = Str(<<" ", "x">>)
        /\ calls[c].op = "search"
        /\ calls[c].request # NoRequest
        /\ calls[c].request.headers["Authorization"] =
               Str(<<"B","e","a","r","e","r"," "," ","x">>)

\* the search input of slot c is the plain one but for property p
PlainBut(c, p) ==
    \A q \in DOMAIN BaseSearch \ {p} : Get(calls[c].input, q) = BaseSearch[q]

\* a finite number
FiniteNumber(v) == v.t = "number" /\ v \notin {NaN, Infinity, NegInfinity}

LimitMessage == "limit must be a positive number."
OffsetMessage == "offset must be a non-negative number."
CollectionsMessage == "collections must be a non-empty array of strings."

\* limit is absent or a finite number > 0
LimitAccepted(v) == v = Undef \/ (FiniteNumber(v) /\ v.halves > 0)

(* C8: search rejects with INVALID_INPUT when limit is present and is not a *)
(* finite number > 0 (-1, 0, NaN, Infinity, a non-number), and does not     *)
(* reject on the ground of limit when limit is absent or a finite number    *)
(* > 0 (1, or 0.5).                                                         *)
C8_SearchLimit ==
    \A c \in Slots :
        SearchCall(c) =>
            LET limit == Get(calls[c].input, "limit")
            IN  /\ ~LimitAccepted(limit) => RejectedInvalidInput(c) /\ NoFetch(c)
                /\ ~LimitAccepted(limit) /\ PlainBut(c, "limit")
                       => RejectedWithMessage(c, LimitMessage)
                /\ LimitAccepted(limit) => ~RejectedWithMessage(c, LimitMessage)
                /\ LimitAccepted(limit) /\ PlainBut(c, "limit") => calls[c].sent = 1

C8_Witness ==
    \E c \in Slots :
        /\ SearchCall(c)
        /\ Get(calls[c].input, "limit") = Num(0)
        /\ RejectedWithMessage(c, LimitMessage)
        /\ NoFetch(c)

\* offset is absent or a finite number >= 0
OffsetAccepted(v) == v = Undef \/ (FiniteNumber(v) /\ v.halves >= 0)

(* C9: search rejects with INVALID_INPUT when offset is present and is not  *)
(* a finite number >= 0 (negative, NaN, Infinity, a non-number), and does   *)
(* not reject on the ground of offset when offset is absent or a finite     *)
(* number >= 0, 0 included.                                                 *)
C9_SearchOffset ==
    \A c \in Slots :
        SearchCall(c) =>
            LET offset == Get(calls[c].input, "offset")
            IN  /\ ~OffsetAccepted(offset) => RejectedInvalidInput(c) /\ NoFetch(c)
                /\ ~OffsetAccepted(offset) /\ PlainBut(c, "offset")
                       => RejectedWithMessage(c, OffsetMessage)
                /\ OffsetAccepted(offset) => ~RejectedWithMessage(c, OffsetMessage)
                /\ OffsetAccepted(offset) /\ PlainBut(c, "offset") => calls[c].sent = 1

C9_Witness ==
    \E c \in Slots :
        /\ SearchCall(c)
        /\ Get(calls[c].input, "offset") = Num(0)
        /\ PlainBut(c, "offset")
        /\ calls[c].sent = 1
        /\ calls[c].request # NoRequest

\* collections is a non-empty array of non-blank strings
CollectionsAccepted(v) ==
    /\ v.t = "array"
    /\ Len(v.a) > 0
    /\ \A i \in 1..Len(v.a) : NonBlankString(v.a[i])

(* C10: search rejects with INVALID_INPUT when collections is not an array, *)
(* is an empty array, or has an element that is not a string or is blank    *)
(* after trimming; it accepts collections exactly when it is a non-empty    *)
(* array of non-blank strings.                                              *)
C10_SearchCollections ==
    \A c \in Slots :
        SearchCall(c) =>
            LET collections == Get(calls[c].input, "collections")
            IN  /\ ~CollectionsAccepted(collections)
                       => RejectedInvalidInput(c) /\ NoFetch(c)
                /\ ~CollectionsAccepted(collections) /\ PlainBut(c, "collections")
                       => RejectedWithMessage(c, CollectionsMessage)
                /\ CollectionsAccepted(collections)
                       => ~RejectedWithMessage(c, CollectionsMessage)
                /\ CollectionsAccepted(collections) /\ PlainBut(c, "collections")
                       => calls[c].sent = 1

C10_Witness ==
    \E c \in Slots :
        /\ SearchCall(c)
        /\ Get(calls[c].input, "collections") = Arr(<<Str(<<"x">>), Str(<<>>)>>)
        /\ RejectedWithMessage(c, CollectionsMessage)
        /\ NoFetch(c)

----------------------------------------------------------------------------
\* the operators of the type FilterOperator
FilterOperators ==
    {<<"e","q">>, <<"n","e","q">>, <<"g","t">>, <<"g","t","e">>, <<"l","t">>,
     <<"l","t","e">>, <<"i","n">>, <<"n","o","t","_","i","n">>,
     <<"c","o","n","t","a","i","n","s","_","a","l","l">>,
     <<"c","o","n","t","a","i","n","s","_","a","n","y">>,
     <<"c","o","n","t","a","i","n","s","_","n","o","n","e">>}

\* an element of filters that the loop of search lets through
FilterAccepted(f) ==
    /\ f.t = "object"
    /\ NonBlankString(Get(f, "key"))
    /\ NonBlankString(Get(f, "operator"))
    /\ Get(f, "value") \notin {Undef, Null}

\* filters is a non-empty array of such elements
FiltersAccepted(v) ==
    /\ v.t = "array"
    /\ Len(v.a) > 0
    /\ \A i \in 1..Len(v.a) : FilterAccepted(v.a[i])

FilterMessages ==
    {"filters must be a non-empty array.", "Each filter must be an object.",
     "filter.key is required.", "filter.operator is required.",
     "filter.value is required."}

(* C11: when filters is present and autoFilters is absent, search rejects   *)
(* with INVALID_INPUT, without a request, if filters is not an array or is  *)
(* empty, or if an element is not an object, has a key or an operator that  *)
(* is not a non-blank string, or has a value that is undefined or null;     *)
(* otherwise the filters pass validation: no filter message is reported,    *)
(* and with the rest of the input plain the call is not rejected as         *)
(* INVALID_INPUT (an operator outside FilterOperators and the values false, *)
(* 0 and "" are let through).                                               *)
C11_SearchFilters ==
    \A c \in Slots :
        /\ SearchCall(c)
        /\ Get(calls[c].input, "filters") # Undef
        /\ Get(calls[c].input, "autoFilters") = Undef
        => LET filters == Get(calls[c].input, "filters")
           IN  /\ ~FiltersAccepted(filters) => RejectedInvalidInput(c) /\ NoFetch(c)
               /\ ~FiltersAccepted(filters) /\ PlainBut(c, "filters")
                      => \E m \in FilterMessages : RejectedWithMessage(c, m)
               /\ FiltersAccepted(filters)
                      => \A m \in FilterMessages : ~RejectedWithMessage(c, m)
               /\ FiltersAccepted(filters) /\ PlainBut(c, "filters")
                      => /\ Validated(c)
                         /\ ~RejectedInvalidInput(c)
                         /\ ~StringifyThrows(filters) => calls[c].sent = 1

C11_Witness ==
    \E c \in Slots :
        /\ SearchCall(c)
        /\ PlainBut(c, "filters")
        /\ LET filters == Get(calls[c].input, "filters")
           IN  /\ filters.t = "array"
               /\ Len(filters.a) = 1
               /\ FilterAccepted(filters.a[1])
               /\ Get(filters.a[1], "operator").s \notin FilterOperators
               /\ Get(filters.a[1], "value") = Bool(FALSE)
        /\ calls[c].sent = 1
        /\ calls[c].request # NoRequest

----------------------------------------------------------------------------
\* the request of slot c carries the JSON encoding of the body its method built
SentBodyOf(c) ==
    calls[c].request # NoRequest =>
        calls[c].request.body = JsonText(JsonOf(BodyOf(c)))

(* C12: for every valid search input the request body has the keys query,   *)
(* collections, limit and offset, with query and collections the caller's,  *)
(* limit the caller's limit or 10 when absent, offset the caller's offset   *)
(* or 0 when absent; it has the key filters exactly when the caller         *)
(* supplied filters (then the caller's array) and the key autoFilters       *)
(* exactly when the caller supplied autoFilters (then the caller's value,   *)
(* false included); it has no other key; and that body, JSON-encoded, is    *)
(* what the request carries.                                                *)
C12_SearchBody ==
    \A c \in Slots :
        SearchCall(c) /\ Validated(c) =>
            LET input == calls[c].input
                body == BodyOf(c).o
            IN  /\ {"query", "collections", "limit", "offset"} \subseteq DOMAIN body
                /\ DOMAIN body \subseteq
                       {"query", "collections", "limit", "offset", "filters", "autoFilters"}
                /\ body.query = Get(input, "query")
                /\ body.collections = Get(input, "collections")
                /\ body.limit = IF Get(input, "limit") = Undef THEN Num(20)
                                ELSE Get(input, "limit")
                /\ body.offset = IF Get(input, "offset") = Undef THEN Num(0)
                                 ELSE Get(input, "offset")
                /\ "filters" \in DOMAIN body <=> Get(input, "filters") # Undef
                /\ "filters" \in DOMAIN body => body.filters = Get(input, "filters")
                /\ "autoFilters" \in DOMAIN body <=> Get(input, "autoFilters") # Undef
                /\ "autoFilters" \in DOMAIN body
                       => body.autoFilters = Get(input, "autoFilters")
                /\ SentBodyOf(c)
                /\ calls[c].request # NoRequest
                       => DOMAIN calls[c].request.body.json.o = DOMAIN body

C12_Witness ==
    \E c \in Slots :
        /\ SearchCall(c)
        /\ Get(calls[c].input, "autoFilters") = Bool(FALSE)
        /\ Get(calls[c].input, "limit") = Undef
        /\ calls[c].sent = 1
        /\ calls[c].request # NoRequest
        /\ DOMAIN calls[c].request.body.json.o =
               {"query", "collections", "limit", "offset", "autoFilters"}
        /\ calls[c].request.body.json.o.autoFilters = Bool(FALSE)
        /\ calls[c].request.body.json.o.limit = Num(20)

----------------------------------------------------------------------------
IndexCall(c) == InCall(c) /\ calls[c].op = "index"

\* the body of index for this input: the four required fields and metadata
IndexBody(input) ==
    Obj([id         |-> Get(input, "id"),
         collection |-> Get(input, "collection"),
         title      |-> Get(input, "title"),
         content    |-> Get(input, "content"),
         metadata   |-> Get(input, "metadata")])

\* the request of slot c is method to the configured base URL followed by path
RequestTo(c, method, path) ==
    /\ calls[c].request # NoRequest
    /\ calls[c].request.method = method
    /\ calls[c].request.url = Str(client.config.baseUrl.s \o path)

(* C13 as stated: a valid index call produces one POST to /index whose body *)
(* has exactly the fields id, collection, title, content and metadata, each *)
(* the caller's value (metadata undefined when none was given).             *)
C13_ValidIndexOnePost ==
    \A c \in Slots :
        IndexCall(c) /\ Validated(c) =>
            /\ calls[c].sent = 1
            /\ RequestTo(c, "POST", <<"/","i","n","d","e","x">>)
            /\ BodyOf(c) = IndexBody(calls[c].input)
            /\ SentBodyOf(c)

(* C13 amended: a valid index call builds a body with exactly the fields    *)
(* id, collection, title, content and metadata, each the caller's value     *)
(* (metadata undefined when none was given), and no other field of the      *)
(* input; when that body can be encoded as JSON the call produces one POST  *)
(* to /index carrying its encoding; when it cannot (a BigInt in metadata)   *)
(* the call rejects with the exception of the encoder and produces no       *)
(* request.                                                                 *)
C13_IndexBody ==
    \A c \in Slots :
        IndexCall(c) /\ Validated(c) =>
            /\ BodyOf(c) = IndexBody(calls[c].input)
            /\ ~StringifyThrows(Get(calls[c].input, "metadata")) =>
                   /\ calls[c].sent = 1
                   /\ RequestTo(c, "POST", <<"/","i","n","d","e","x">>)
                   /\ SentBodyOf(c)
            /\ StringifyThrows(Get(calls[c].input, "metadata")) =>
                   /\ NoFetch(c)
                   /\ RejectedCall(c)
                   /\ ~RejectedInvalidInput(c)

C13_Witness ==
    \E c \in Slots :
        /\ IndexCall(c)
        /\ Get(calls[c].input, "extra") = Str(<<"x">>)
        /\ Get(calls[c].input, "metadata") = Undef
        /\ calls[c].sent = 1
        /\ RequestTo(c, "POST", <<"/","i","n","d","e","x">>)
        /\ DOMAIN calls[c].request.body.json.o = {"id", "collection", "title", "content"}

----------------------------------------------------------------------------
\* the argument of the constructor is missing, is no object, or has an
\* apiKey that is not a non-blank string
ConfigRejected(argument) ==
    \/ argument.t \in {"undefined", "null"}
    \/ TypeOf(argument) # "object"
    \/ ~NonBlankString(Get(argument, "apiKey"))

(* C14: the constructor throws an error with code INVALID_INPUT when config *)
(* is missing or not an object, or when apiKey is not a string or is blank  *)
(* after trimming; otherwise construction succeeds, keeping the apiKey as   *)
(* given; the step of construction issues no request, and a client whose    *)
(* construction threw never issues one.                                     *)
C14_Constructor ==
    /\ [](client.state # "none" =>
            /\ ConfigRejected(client.argument) =>
                   /\ client.state = "threw"
                   /\ isEtoileError(client.error)
                   /\ Get(client.error, "code") = Lit("INVALID_INPUT")
            /\ ~ConfigRejected(client.argument) =>
                   /\ client.state = "ready"
                   /\ client.config.apiKey = Get(client.argument, "apiKey"))
    /\ [](client.state \in {"none", "threw"} => \A c \in Slots : calls[c] = IdleCall)
    /\ [][client.state = "none" /\ client'.state # "none" => calls' = calls]_vars

C14_Witness ==
    /\ client.state = "threw"
    /\ Get(client.argument, "apiKey") = Str(<<" ">>)
    /\ client.error = createEtoileError("INVALID_INPUT", "apiKey is required.")
    /\ \A c \in Slots : calls[c] = IdleCall

----------------------------------------------------------------------------
PatchCall(c) == InCall(c) /\ calls[c].op = "patch"

\* metadata is present and is an object (typeof "object", null excluded)
MetadataAccepted(v) == v.t \notin {"undefined", "null"} /\ TypeOf(v) = "object"

PatchBody(input) ==
    Obj([id |-> Get(input, "id"), metadata |-> Get(input, "metadata")])

(* C15 as stated: patch rejects with INVALID_INPUT, with no request, when   *)
(* metadata is undefined, null or not an object; with a valid id and an     *)
(* object metadata it sends PATCH /documents with body {id, metadata}.      *)
C15_PatchSendsForObjectMetadata ==
    \A c \in Slots :
        PatchCall(c) =>
            LET input == calls[c].input
            IN  /\ ~MetadataAccepted(Get(input, "metadata"))
                       => RejectedInvalidInput(c) /\ NoFetch(c)
                /\ NonBlankString(Get(input, "id")) /\ MetadataAccepted(Get(input, "metadata"))
                       => /\ calls[c].sent = 1
                          /\ RequestTo(c, "PATCH", <<"/","d","o","c","u","m","e","n","t","s">>)
                          /\ calls[c].request.body = JsonText(JsonOf(PatchBody(input)))

(* C15 amended: patch rejects with INVALID_INPUT, with no request, when     *)
(* metadata is undefined, null or not an object; with a valid id and an     *)
(* object metadata (an array included) it passes validation with the body   *)
(* {id, metadata}, and sends PATCH /documents carrying that body when the   *)
(* metadata can be encoded as JSON; when it cannot (a BigInt inside) the    *)
(* call rejects with the exception of the encoder and sends nothing.        *)
C15_PatchMetadata ==
    \A c \in Slots :
        PatchCall(c) =>
            LET input == calls[c].input
                metadata == Get(calls[c].input, "metadata")
            IN  /\ ~MetadataAccepted(metadata)
                       => RejectedInvalidInput(c) /\ NoFetch(c)
                /\ ~MetadataAccepted(metadata) /\ NonBlankString(Get(input, "id"))
                       => RejectedWithMessage(c, "metadata is required.")
                /\ NonBlankString(Get(input, "id")) /\ MetadataAccepted(metadata)
                       => /\ Validated(c)
                          /\ BodyOf(c) = PatchBody(input)
                          /\ ~StringifyThrows(metadata) =>
                                 /\ calls[c].sent = 1
                                 /\ RequestTo(c, "PATCH",
                                        <<"/","d","o","c","u","m","e","n","t","s">>)
                                 /\ calls[c].request.body =
                                        JsonText(JsonOf(PatchBody(input)))
                          /\ StringifyThrows(metadata) =>
                                 /\ NoFetch(c)
                                 /\ RejectedCall(c)
                                 /\ ~RejectedInvalidInput(c)

C15_Witness ==
    \E c \in Slots :
        /\ PatchCall(c)
        /\ Get(calls[c].input, "metadata") = Obj([year |-> Num(2)])
        /\ calls[c].sent = 1
        /\ RequestTo(c, "PATCH", <<"/","d","o","c","u","m","e","n","t","s">>)
        /\ calls[c].request.body =
               JsonText(Obj([id |-> Str(<<"x">>), metadata |-> Obj([year |-> Num(2)])]))

----------------------------------------------------------------------------
\* the method and the path of each operation
OpMethod(op) ==
    CASE op = "index"  -> "POST"
      [] op = "search" -> "POST"
      [] op = "delete" -> "DELETE"
      [] op = "patch"  -> "PATCH"

OpPath(op) ==
    CASE op = "index"  -> <<"/","i","n","d","e","x">>
      [] op = "search" -> <<"/","s","e","a","r","c","h">>
      [] op = "delete" -> <<"/","d","o","c","u","m","e","n","t","s">>
      [] op = "patch"  -> <<"/","d","o","c","u","m","e","n","t","s">>

\* the base URL in force: the one given at construction, the default
\* endpoint when none (undefined or null) was given
ConfiguredBaseUrl ==
    IF Get(client.argument, "baseUrl") \in {Undef, Null}
    THEN Str(<<"h","t","t","p","s",":","/","/","e","t","o","i","l","e",".","d","e","v",
               "/","a","p","i","/","v","1">>)
    ELSE Get(client.argument, "baseUrl")

(* C16: every request of an operation uses the method and the path of that  *)
(* operation, whatever the input: index POST /index, search POST /search,   *)
(* delete DELETE /documents with body {id}, patch PATCH /documents; its URL *)
(* is the base URL given at construction, or https://etoile.dev/api/v1 when *)
(* none was given, followed by that path.                                   *)
C16_MethodPathUrl ==
    \A c \in Slots :
        calls[c].op \in {"index", "search", "delete", "patch"}
        /\ calls[c].request # NoRequest
        =>  /\ calls[c].request.method = OpMethod(calls[c].op)
            /\ calls[c].request.url = Str(ConfiguredBaseUrl.s \o OpPath(calls[c].op))
            /\ calls[c].op = "delete" =>
                   calls[c].request.body = JsonText(Obj([id |-> calls[c].input]))

C16_Witness ==
    \E c \in Slots :
        /\ Get(client.argument, "baseUrl") = Str(<<"u">>)
        /\ calls[c].op = "delete"
        /\ calls[c].input = Str(<<"x", " ">>)
        /\ calls[c].request # NoRequest
        /\ calls[c].request.method = "DELETE"
        /\ calls[c].request.url = Str(<<"u","/","d","o","c","u","m","e","n","t","s">>)
        /\ calls[c].request.body = JsonText(Obj([id |-> Str(<<"x", " ">>)]))

----------------------------------------------------------------------------
(* C17: the configuration of the client (apiKey, baseUrl) is, after any     *)
(* sequence of calls, what the constructor made of its argument: no step of *)
(* a call, be it a validation failure, a request, a response or a failure   *)
(* of the transport, changes the client.                                    *)
C17_ConfigImmutable ==
    /\ [](client.state = "ready" =>
            client.config = [apiKey  |-> Get(client.argument, "apiKey"),
                             baseUrl |-> ConfiguredBaseUrl])
    /\ [][client.state = "ready" => client' = client]_vars

C17_Witness ==
    \E c \in Slots :
        /\ client.state = "ready"
        /\ Get(client.argument, "baseUrl") = Str(<<"u">>)
        /\ client.config = [apiKey |-> Str(<<"x">>), baseUrl |-> Str(<<"u">>)]
        /\ Settled(c)
        /\ calls[c].failure # NoFailure
        /\ calls[c].outcome.state = "rejected"

----------------------------------------------------------------------------
\* the request the call in slot c sends, from its own input and the
\* configuration alone
OwnRequest(c) ==
    LET m == Method(calls[c].op, calls[c].input)
    IN  IF m.thrown \/ (m.options.body # Undef /\ StringifyThrows(m.options.body))
        THEN NoRequest
        ELSE fetchRequest(client.config, m.path, m.options)

\* what the call in slot c settles with, from its own input, its own
\* response and the failure of its own fetch alone
OwnOutcome(c) ==
    LET m == Method(calls[c].op, calls[c].input)
    IN  IF m.thrown THEN Rejected(m.value)
        ELSE IF m.options.body # Undef /\ StringifyThrows(m.options.body)
        THEN Rejected(JSONstringify(m.options.body).value)
        ELSE IF calls[c].failure # NoFailure
        THEN Rejected(fetchJsonCatch(calls[c].failure))
        ELSE IF ~ResponseOk(calls[c].response)
        THEN Rejected(parseErrorPayload(calls[c].response))
        ELSE IF responseJson(calls[c].response).thrown
        THEN Rejected(fetchJsonCatch(responseJson(calls[c].response).value))
        ELSE IF ReturnsBody(calls[c].op)
        THEN Fulfilled(responseJson(calls[c].response).value)
        ELSE Fulfilled(Undef)

\* the step a call waits for can be taken, whatever the other calls do
CanProceed(c) ==
    /\ calls[c].pc = "idle" /\ client.argument = Obj(BaseConfig) => ENABLED ConcCall(c)
    /\ calls[c].pc = "fetching" => ENABLED FetchResolves(c)
    /\ calls[c].pc = "json" => ENABLED ResponseJson(c)
    /\ calls[c].pc = "errorPayload" => ENABLED ErrorPayload(c)
    /\ calls[c].pc = "settled" => ENABLED Return(c)

(* C18: calls issued concurrently on one client are independent under every *)
(* interleaving of their steps: the request a call sends is determined by   *)
(* its own input and the configuration, the result or error it settles with *)
(* by its own input, its own response and the failure of its own fetch; a   *)
(* step of one call changes no other call; and the step a call waits for    *)
(* can be taken whatever the state of the other calls (no ordering).        *)
C18_ConcurrentCallsIndependent ==
    /\ [](\A c \in Slots :
            /\ InCall(c) => calls[c].request = OwnRequest(c)
            /\ Settled(c) => calls[c].outcome = OwnOutcome(c)
            /\ client.state = "ready" => CanProceed(c))
    /\ [][\A c, d \in Slots :
            c # d /\ calls'[c] # calls[c] => calls'[d] = calls[d]]_vars

\* two searches in flight together, with different inputs, requests and
\* outcomes, the second settled while the first one still waits
C18_Witness ==
    \E c, d \in Slots :
        /\ c < d
        /\ calls[c].op = "search" /\ calls[d].op = "search"
        /\ calls[c].pc = "errorPayload"
        /\ calls[c].response.status = 500
        /\ Settled(d)
        /\ calls[d].outcome = Fulfilled(EmptyObj)
        /\ calls[c].input # calls[d].input
        /\ calls[c].request.body # calls[d].request.body

----------------------------------------------------------------------------
(* C19: on a 2xx response whose body is valid JSON, search resolves with    *)
(* exactly the parsed body, whatever its shape (an object without query or  *)
(* results, an array, a string, a number, null).                            *)
C19_SearchResolvesWithBody ==
    \A c \in Slots :
        /\ SearchCall(c)
        /\ Settled(c)
        /\ calls[c].response # NoResponse
        /\ calls[c].response.status \in 200..299
        /\ "json" \in DOMAIN calls[c].response.body
        => calls[c].outcome = Fulfilled(calls[c].response.body.json)

C19_Witness ==
    \E c \in Slots :
        /\ SearchCall(c)
        /\ Settled(c)
        /\ calls[c].response # NoResponse
        /\ calls[c].response.status = 200
        /\ calls[c].response.body = JsonText(Arr(<<>>))
        /\ calls[c].outcome = Fulfilled(Arr(<<>>))

----------------------------------------------------------------------------
\* the call in slot c waits for a promise of the platform: the one of fetch,
\* or the one of response.json() once there is a response
AwaitsIO(c) ==
    /\ calls[c].sent = 1
    /\ calls[c].failure = NoFailure
    /\ \/ calls[c].pc = "fetching" /\ calls[c].response = NoResponse
       \/ calls[c].pc \in {"json", "errorPayload"} /\ calls[c].response # NoResponse

(* C20: every call of a public method settles exactly once, as a resolution *)
(* or as a rejection: a call is settled exactly when it has an outcome, and *)
(* an outcome never changes; a validation failure rejects in the step of    *)
(* the call, with no request, response or failure of fetch; a call that is  *)
(* not settled is waiting for fetch or for the parse of the body, and it    *)
(* leaves the wait for fetch only through the settling of that fetch (no    *)
(* abort); given that fetch and the parse settle, every call settles.       *)
C20_SettlesExactlyOnce ==
    /\ [](\A c \in Slots :
            /\ Settled(c) <=> calls[c].outcome.state \in {"fulfilled", "rejected"}
            /\ ~Settled(c) <=> calls[c].outcome = Pending
            /\ InCall(c) /\ ~Validated(c) =>
                   /\ calls[c].outcome =
                          Rejected(Method(calls[c].op, calls[c].input).value)
                   /\ NoFetch(c)
                   /\ calls[c].response = NoResponse
                   /\ calls[c].failure = NoFailure
            /\ InCall(c) /\ ~Settled(c) => AwaitsIO(c))
    /\ [][\A c \in Slots :
            /\ Settled(c) => calls'[c] = calls[c] \/ calls'[c] = IdleCall
            /\ calls[c].pc = "idle" /\ calls'[c].pc # "idle"
                   /\ Method(calls'[c].op, calls'[c].input).thrown
                   => calls'[c].pc = "settled"
            /\ calls[c].pc = "fetching" /\ calls'[c] # calls[c]
                   => \/ calls'[c].response # NoResponse
                      \/ calls'[c].failure # NoFailure]_vars
    /\ \A c \in Slots : InCall(c) ~> Settled(c)

C20_Witness ==
    \E c \in Slots :
        /\ calls[c].op = "delete"
        /\ Settled(c)
        /\ calls[c].sent = 1
        /\ calls[c].response # NoResponse
        /\ calls[c].response.status = 204
        /\ calls[c].response.body = Garbage
        /\ calls[c].outcome.state = "rejected"

----------------------------------------------------------------------------
ListCall(c) == InCall(c) /\ calls[c].op = "list"

\* limit is absent or a finite number from 1 to 100
ListLimitAccepted(v) ==
    v = Undef \/ (FiniteNumber(v) /\ v.halves >= 2 /\ v.halves <= 200)

(* C21: list rejects with INVALID_INPUT, and issues no request, when limit  *)
(* is present and outside 1..100 (0, 100.5, 101, a negative number, a       *)
(* non-number) or when offset is present and negative (or no finite         *)
(* number); otherwise it issues one request carrying the caller's limit, or *)
(* 20 when absent, and the caller's offset, or 0 when absent.               *)
C21_ListLimitOffset ==
    \A c \in Slots :
        ListCall(c) =>
            LET limit == Get(calls[c].input, "limit")
                offset == Get(calls[c].input, "offset")
            IN  /\ ~ListLimitAccepted(limit) \/ ~OffsetAccepted(offset)
                       => RejectedInvalidInput(c) /\ NoFetch(c)
                /\ ListLimitAccepted(limit) /\ OffsetAccepted(offset)
                       => /\ calls[c].sent = 1
                          /\ calls[c].request # NoRequest
                          /\ calls[c].request.body =
                                 JsonText(Obj([limit  |-> IF limit = Undef THEN Num(40)
                                                          ELSE limit,
                                               offset |-> IF offset = Undef THEN Num(0)
                                                          ELSE offset]))

C21_Witness ==
    \E c \in Slots :
        /\ ListCall(c)
        /\ Get(calls[c].input, "limit") = Num(0)
        /\ Get(calls[c].input, "offset") = Undef
        /\ RejectedInvalidInput(c)
        /\ NoFetch(c)

----------------------------------------------------------------------------
GetCall(c) == InCall(c) /\ calls[c].op = "get"

(* C22: get(id) rejects with INVALID_INPUT, and issues no request, when id  *)
(* is not a string or is blank; with a non-blank id it issues one GET, with *)
(* no body, to /documents/{id}, and on a 2xx response with a JSON body      *)
(* resolves with the parsed body, the {document} the server sent.           *)
C22_GetById ==
    \A c \in Slots :
        GetCall(c) =>
            LET id == calls[c].input
            IN  /\ ~NonBlankString(id) => RejectedInvalidInput(c) /\ NoFetch(c)
                /\ NonBlankString(id) =>
                       /\ calls[c].sent = 1
                       /\ RequestTo(c, "GET",
                              <<"/","d","o","c","u","m","e","n","t","s","/">> \o id.s)
                       /\ calls[c].request.body = Undef
                /\ /\ Settled(c)
                   /\ calls[c].response # NoResponse
                   /\ calls[c].response.status \in 200..299
                   /\ "json" \in DOMAIN calls[c].response.body
                   => calls[c].outcome = Fulfilled(calls[c].response.body.json)

C22_Witness ==
    \E c \in Slots :
        /\ GetCall(c)
        /\ calls[c].input = Str(<<"x">>)
        /\ calls[c].sent = 1
        /\ calls[c].request.method = "GET"
        /\ Settled(c)
        /\ calls[c].response # NoResponse
        /\ calls[c].response.status = 200
        /\ calls[c].outcome = Fulfilled(Obj([document |-> Obj([title |-> Lit("t")])]))

----------------------------------------------------------------------------
(* C23: the update (patch) operation can update the title, the metadata, or *)
(* both: a call with a valid id and a title but no metadata passes          *)
(* validation, and a title supplied by the caller is in the body of the     *)
(* PATCH /documents request, next to id.                                    *)
C23_UpdateTitle ==
    \A c \in Slots :
        /\ PatchCall(c)
        /\ NonBlankString(Get(calls[c].input, "id"))
        /\ Get(calls[c].input, "title") # Undef
        => /\ Get(calls[c].input, "metadata") = Undef
                  => Validated(c) /\ ~RejectedInvalidInput(c)
           /\ calls[c].request # NoRequest
                  => /\ "title" \in DOMAIN calls[c].request.body.json.o
                     /\ calls[c].request.body.json.o.title = Get(calls[c].input, "title")

----------------------------------------------------------------------------
RECURSIVE FirstFilterMessage(_)
\* the message of the first rule that an element of filters breaks, the
\* elements in array order and, per element: object, key, operator, value
FirstFilterMessage(a) ==
    IF a = <<>> THEN "none"
    ELSE LET f == Head(a)
         IN  IF f.t \notin {"object", "array"} THEN "Each filter must be an object."
             ELSE IF ~NonBlankString(Get(f, "key")) THEN "filter.key is required."
             ELSE IF ~NonBlankString(Get(f, "operator")) THEN "filter.operator is required."
             ELSE IF Get(f, "value") \in {Undef, Null} THEN "filter.value is required."
             ELSE FirstFilterMessage(Tail(a))

\* the message of the first rule that a search input breaks, in the order
\* query, collections, limit, offset, exclusion, filters
FirstSearchMessage(input) ==
    LET filters == Get(input, "filters")
    IN  IF ~NonBlankString(Get(input, "query")) THEN "query is required."
        ELSE IF ~CollectionsAccepted(Get(input, "collections")) THEN CollectionsMessage
        ELSE IF ~LimitAccepted(Get(input, "limit")) THEN LimitMessage
        ELSE IF ~OffsetAccepted(Get(input, "offset")) THEN OffsetMessage
        ELSE IF filters # Undef /\ Get(input, "autoFilters") # Undef
        THEN "filters and autoFilters are mutually exclusive."
        ELSE IF filters = Undef THEN "none"
        ELSE IF filters.t # "array" \/ Len(filters.a) = 0
        THEN "filters must be a non-empty array."
        ELSE FirstFilterMessage(filters.a)

(* C24: search validates in the order query, collections, limit, offset,    *)
(* the exclusion of filters and autoFilters, then the filters array and its *)
(* elements in array order (per element: object, key, operator, value): the *)
(* rejection carries the message of the first rule broken in this order,    *)
(* and an input that breaks none is not rejected as INVALID_INPUT.          *)
C24_SearchValidationOrder ==
    \A c \in Slots :
        SearchCall(c) =>
            LET message == FirstSearchMessage(calls[c].input)
            IN  IF message = "none"
                THEN Validated(c) /\ ~RejectedInvalidInput(c)
                ELSE RejectedWithMessage(c, message) /\ NoFetch(c)

\* an invalid limit with both filters: [] and autoFilters: the limit error
C24_Witness ==
    \E c \in Slots :
        /\ SearchCall(c)
        /\ Get(calls[c].input, "limit") = Num(0)
        /\ Get(calls[c].input, "filters") = Arr(<<>>)
        /\ Get(calls[c].input, "autoFilters") = Bool(FALSE)
        /\ RejectedWithMessage(c, LimitMessage)
        /\ NoFetch(c)

----------------------------------------------------------------------------
(* C25: when the response status is 2xx but the body is not valid JSON (an  *)
(* empty body), the call rejects, also for index, delete and patch, whose   *)
(* result ignores the body; it rejects with the parse exception itself, an  *)
(* object that the catch block passes on unchanged: no INVALID_INPUT error, *)
(* not {error: "Network request failed."}, not {error: "Request failed."}.  *)
C25_OkWithInvalidJsonRejects ==
    \A c \in Slots :
        /\ Settled(c)
        /\ calls[c].response # NoResponse
        /\ calls[c].response.status \in 200..299
        /\ calls[c].response.body = Garbage
        => /\ calls[c].outcome.state = "rejected"
           /\ calls[c].outcome.value = responseJson(calls[c].response).value
           /\ Get(calls[c].outcome.value, "name") = Lit("SyntaxError")
           /\ isObject(calls[c].outcome.value)
           /\ ~RejectedInvalidInput(c)
           /\ ~isEtoileError(calls[c].outcome.value)
           /\ calls[c].outcome.value # Obj([error |-> Lit("Network request failed.")])
           /\ calls[c].outcome.value # Obj([error |-> Lit("Request failed.")])

C25_Witness ==
    \E c \in Slots :
        /\ calls[c].op = "index"
        /\ Settled(c)
        /\ calls[c].response # NoResponse
        /\ calls[c].response.status = 200
        /\ calls[c].response.body = Garbage
        /\ calls[c].outcome =
               Rejected(Obj([name |-> Lit("SyntaxError"),
                             message |-> Lit("Unexpected end of JSON input")]))

====
